---- MODULE Spec2Model ----
(***************************************************************************)
(* Grid maze (Cell, Maze), the two carvers solveMazeWithRandomDPS and      *)
(* wilsonsAlgorithm, the cancellable delay timeoutWithCancel and the       *)
(* randomization utilities shuffle and randomMember.                       *)
(*                                                                         *)
(* A cell is the pair <<x, y>> of its coordinates.  Arrays are sequences   *)
(* (1-based here, 0-based in the source).  A JavaScript Set that is only   *)
(* tested, added to and deleted from is a set.                             *)
(***************************************************************************)
EXTENDS Integers, Sequences, FiniteSets

VARIABLES
    width, height,   \* Maze.width, Maze.height
    neighbors,       \* Cell.neighbors of every cell: cell -> array of cells
    edges,           \* Cell.edges of every cell: cell -> array of cells
    alg,             \* the carver this run calls: "dfs", "wilson" (or "none")
    pc,              \* position of the running code
    dfsVisited,      \* solveMazeWithRandomDPS: visited (coordinates)
    call,            \* solveMazeWithRandomDPS: the pending call visit(last, x, y)
    stack,           \* solveMazeWithRandomDPS: the active visit frames, innermost last
    unvisited,       \* wilsonsAlgorithm: unvisited
    visited,         \* wilsonsAlgorithm: visited
    startCell,       \* wilsonsAlgorithm: startCell
    stepsTaken,      \* wilsonsAlgorithm: stepsTaken
    path,            \* wilsonsAlgorithm: path
    current,         \* wilsonsAlgorithm: current
    next,            \* wilsonsAlgorithm: next
    carveIdx,        \* wilsonsAlgorithm: i of the carving loop
    unvisitedBefore, \* unvisited.size when the current pass of the main loop began
    frames,          \* number of renderMaze invocations made by wilsonsAlgorithm
    lastFrame,       \* arguments of the latest renderMaze invocation
    aborted,         \* cancelSignal.aborted
    signalEarly,     \* the signal was triggered before any delay had completed
    delay,           \* the promise and timer of the latest timeoutWithCancel
    oldDelays,       \* promise and timer of the earlier timeoutWithCancel calls
    result,          \* the promise wilsonsAlgorithm returns
    group,           \* randomMember alone: its argument
    picked,          \* randomMember alone: its outcome
    lookup,          \* getCell alone: its arguments x, y
    found,           \* getCell alone: its outcome
    rows, cols,      \* SquareFlipper: the props rows, cols
    isSelecting,     \* SquareFlipper: the state isSelecting
    selected,        \* SquareFlipper: the state selected (a Set of keys)
    event            \* SquareFlipper: the latest pointer event handled

vars == <<width, height, neighbors, edges, alg, pc, dfsVisited, call, stack,
          unvisited, visited, startCell, stepsTaken, path, current, next,
          carveIdx, unvisitedBefore, frames, lastFrame, aborted, signalEarly, delay, oldDelays,
          result, group, picked, lookup, found, rows, cols, isSelecting, selected,
          event>>

mazeVars == <<width, height, neighbors>>
dfsVars == <<dfsVisited, call, stack>>
walkVars == <<unvisited, visited, startCell, stepsTaken, path, current, next, carveIdx,
              unvisitedBefore>>
frameVars == <<frames, lastFrame>>
signalVars == <<aborted, signalEarly, delay, oldDelays>>
memberVars == <<group, picked>>
lookupVars == <<lookup, found>>
flipVars == <<rows, cols, isSelecting, selected, event>>

----------------------------------------------------------------------------
(* Bounds of the model.                                                    *)

\* mazes of at most this many cells (width * height)
MaxCells == 6
\* drag-select grids of at most this many squares (rows * cols)
MaxSquares == 9
\* walk steps counted by stepsTaken in one run of wilsonsAlgorithm
MaxSteps == 7
\* mazes of at most this many cells in the runs checked for termination
MaxLiveCells == 4
\* length of the collections handed to randomMember alone
MaxLen == 3

----------------------------------------------------------------------------
(* Values.                                                                 *)

\* null (no cell): renderMaze's currentCell, getCell's absent result
Null == << >>
\* undefined: an array read out of range
Undefined == << >>

RECURSIVE SeqToSet(_)
SeqToSet(s) == IF s = << >> THEN {} ELSE {Head(s)} \cup SeqToSet(Tail(s))

RECURSIVE Filter(_, _)
Filter(s, keep) ==
    IF s = << >> THEN << >>
    ELSE IF Head(s) \in keep THEN <<Head(s)>> \o Filter(Tail(s), keep)
         ELSE Filter(Tail(s), keep)

\* every ordering of the array s (entries at different places are different)
RECURSIVE Perms(_)
Perms(s) ==
    IF s = << >> THEN { << >> }
    ELSE UNION { { <<s[i]>> \o p :
                     p \in Perms(SubSeq(s, 1, i - 1) \o SubSeq(s, i + 1, Len(s))) } :
                 i \in 1..Len(s) }

----------------------------------------------------------------------------
(* Randomization utilities.                                                *)

\* Math.floor(Math.random() * n): Math.random() is in [0, 1)
RandomIndex(n) == 0..(n - 1)

\* shuffle: sort with a random comparator leaves some ordering of the array
shuffle(arr) == Perms(arr)

\* a Set or an array as randomMember receives it; items is Array.from(group)
\* for a Set and the array itself otherwise
AsSet(items) == [kind |-> "Set", items |-> items]
AsArray(items) == [kind |-> "Array", items |-> items]

Thrown(msg) == [error |-> msg, value |-> Undefined]
Returned(v) == [error |-> "", value |-> v]

\* randomMember without the test of an empty array
randomMemberNoArrayTest(g) ==
    IF g.kind = "Set" /\ Len(g.items) = 0
    THEN { Thrown("empty group") }
    ELSE { Returned(IF i + 1 \in DOMAIN g.items THEN g.items[i + 1] ELSE Undefined) :
             i \in IF Len(g.items) = 0 THEN {0} ELSE RandomIndex(Len(g.items)) }

\* the outcomes of randomMember(group)
randomMember(g) ==
    IF \/ g.kind = "Set" /\ Len(g.items) = 0
       \/ g.kind = "Array" /\ Len(g.items) = 0
    THEN { Thrown("empty group") }
    ELSE { Returned(g.items[i + 1]) : i \in RandomIndex(Len(g.items)) }

----------------------------------------------------------------------------
(* Cell and Maze.                                                          *)

\* maze.cells.flat(): the cells row by row
Flat(w, h) == [k \in 1..(w * h) |-> <<(k - 1) % w, (k - 1) \div w>>]

Cells(w, h) == (0..(w - 1)) \X (0..(h - 1))

\* Array.from(S) of a Set S built from maze.cells.flat() and only deleted from
ArrayFrom(S) == Filter(Flat(width, height), S)

\* this.cells after the first pass of the Maze constructor: cells[y][x] = new Cell(x, y)
CellsArray(w, h) == [y \in 0..(h - 1) |-> [x \in 0..(w - 1) |-> <<x, y>>]]

\* arr[i][j], undefined out of range
At(arr, i, j) ==
    IF i \in DOMAIN arr THEN (IF j \in DOMAIN arr[i] THEN arr[i][j] ELSE Undefined)
    ELSE Undefined

\* Maze.getCell reading this.cells[x][y]
getCellSwapped(x, y) ==
    IF x < 0 \/ x >= width \/ y < 0 \/ y >= height
    THEN Null
    ELSE At(CellsArray(width, height), x, y)

\* Maze.getCell
getCell(x, y) ==
    IF x < 0 \/ x >= width \/ y < 0 \/ y >= height
    THEN Null
    ELSE At(CellsArray(width, height), y, x)

\* the second pass of the Maze constructor without the left neighbor
SetUpNeighborsNoLeft(w, h) ==
    [c \in Cells(w, h) |->
        (IF c[1] < w - 1 THEN << <<c[1] + 1, c[2]>> >> ELSE << >>)
        \o (IF c[2] > 0 THEN << <<c[1], c[2] - 1>> >> ELSE << >>)
        \o (IF c[2] < h - 1 THEN << <<c[1], c[2] + 1>> >> ELSE << >>)]

\* the second pass of the Maze constructor: left, right, top, bottom
SetUpNeighbors(w, h) ==
    [c \in Cells(w, h) |->
        (IF c[1] > 0 THEN << <<c[1] - 1, c[2]>> >> ELSE << >>)
        \o (IF c[1] < w - 1 THEN << <<c[1] + 1, c[2]>> >> ELSE << >>)
        \o (IF c[2] > 0 THEN << <<c[1], c[2] - 1>> >> ELSE << >>)
        \o (IF c[2] < h - 1 THEN << <<c[1], c[2] + 1>> >> ELSE << >>)]

\* new Cell(x, y): edges = []
NoEdges(w, h) == [c \in Cells(w, h) |-> << >>]

\* Cell.carveEdge: a.carveEdge(b) on the edges of all cells
carveEdge(e, a, b) ==
    LET e1 == [e EXCEPT ![a] = Append(@, b)]
    IN  [e1 EXCEPT ![b] = Append(@, a)]

\* Cell.uncarvedEdges with the test of the filter turned around
uncarvedEdgesCarved(e, c) ==
    Filter(neighbors[c], {n \in SeqToSet(neighbors[c]) : \E i \in DOMAIN e[c] : e[c][i] = n})

\* Cell.uncarvedEdges of cell c, the cells' edges being e
uncarvedEdges(e, c) ==
    Filter(neighbors[c], {n \in SeqToSet(neighbors[c]) : ~ \E i \in DOMAIN e[c] : e[c][i] = n})

\* the key `${x},${y}` of the visited Set: one key per pair of integers
Coord(x, y) == <<x, y>>

\* Array.indexOf: the first index (from 0) of e in p, or -1
indexOf(p, e) ==
    IF \E i \in DOMAIN p : p[i] = e
    THEN (CHOOSE i \in DOMAIN p : p[i] = e /\ \A j \in 1..(i - 1) : p[j] # e) - 1
    ELSE -1

\* Array.slice(0, n)
slice0(p, n) == SubSeq(p, 1, IF n < Len(p) THEN n ELSE Len(p))

----------------------------------------------------------------------------
(* Initial states: before new Maze(width, height).                         *)

NoCall == [last |-> Null, x |-> -1, y |-> -1]
NoDelay == [promise |-> "none", timer |-> "none"]
NoFrame == [cell |-> Null, path |-> << >>]
NoResult == [state |-> "pending", steps |-> -1, error |-> ""]
NoGroup == AsArray(<< >>)
NoPick == [error |-> "none", value |-> Undefined]
NoLookup == [x |-> 0, y |-> 0]
NoFound == [called |-> FALSE, value |-> Null]

\* getCell is not called alone
InitNoLookup == lookup = NoLookup /\ found = NoFound

\* no SquareFlipper is mounted
InitNoFlipper ==
    /\ rows = 0
    /\ cols = 0
    /\ isSelecting = FALSE
    /\ selected = {}
    /\ event = "none"

InitCarver ==
    /\ neighbors = << >>
    /\ edges = << >>
    /\ dfsVisited = {}
    /\ call = NoCall
    /\ stack = << >>
    /\ unvisited = {}
    /\ visited = {}
    /\ startCell = Null
    /\ stepsTaken = 0
    /\ path = << >>
    /\ current = Null
    /\ next = Null
    /\ carveIdx = 0
    /\ unvisitedBefore = 0
    /\ frames = 0
    /\ lastFrame = NoFrame
    /\ aborted = FALSE
    /\ signalEarly = FALSE
    /\ delay = NoDelay
    /\ oldDelays = {}
    /\ result = NoResult

Sizes == {wh \in (1..MaxCells) \X (1..MaxCells) : wh[1] * wh[2] <= MaxCells}

Init ==
    /\ \E wh \in Sizes : width = wh[1] /\ height = wh[2]
    /\ alg \in {"dfs", "wilson"}
    /\ pc = "new"
    /\ InitCarver
    /\ group = NoGroup
    /\ picked = NoPick
    /\ InitNoLookup
    /\ InitNoFlipper

----------------------------------------------------------------------------
(* Maze constructor.                                                       *)

MazeConstructor ==
    /\ pc = "new"
    /\ neighbors' = SetUpNeighbors(width, height)
    /\ edges' = NoEdges(width, height)
    /\ pc' = "constructed"
    /\ UNCHANGED <<width, height, alg, dfsVars, walkVars, frameVars, signalVars,
                   result, memberVars, lookupVars, flipVars>>

----------------------------------------------------------------------------
(* solveMazeWithRandomDPS.                                                 *)

\* const rndCell = randomMember(maze.cells.flat()); visit(rndCell, rndCell.x, rndCell.y)
DFSStart ==
    /\ pc = "constructed"
    /\ alg = "dfs"
    /\ \E r \in randomMember(AsArray(Flat(width, height))) :
         IF r.error # ""
         THEN pc' = "dfsThrown" /\ call' = call
         ELSE /\ call' = [last |-> r.value, x |-> r.value[1], y |-> r.value[2]]
              /\ pc' = "visit"
    /\ UNCHANGED <<mazeVars, edges, alg, dfsVisited, stack, walkVars, frameVars,
                   signalVars, result, memberVars, lookupVars, flipVars>>

\* after a call of visit has returned: the caller's loop goes on, or the
\* root call has returned and solveMazeWithRandomDPS returns
AfterVisit(stk) == IF stk = << >> THEN "dfsDone" ELSE "loop"

\* visit(last, x, y) when (x, y) is already visited: return
VisitSeen ==
    /\ pc = "visit"
    /\ Coord(call.x, call.y) \in dfsVisited
    /\ pc' = AfterVisit(stack)
    /\ call' = NoCall
    /\ UNCHANGED <<mazeVars, edges, alg, dfsVisited, stack, walkVars, frameVars,
                   signalVars, result, memberVars, lookupVars, flipVars>>

\* visit(last, x, y) up to its loop: mark, carve to last, shuffle the
\* uncarved neighbors
VisitNew ==
    /\ pc = "visit"
    /\ Coord(call.x, call.y) \notin dfsVisited
    /\ dfsVisited' = dfsVisited \cup {Coord(call.x, call.y)}
    /\ LET cur == getCell(call.x, call.y)
       IN  IF cur = Null
           THEN /\ pc' = AfterVisit(stack)
                /\ UNCHANGED <<edges, stack>>
           ELSE /\ edges' = carveEdge(edges, cur, call.last)
                /\ \E nbs \in shuffle(uncarvedEdges(edges', cur)) :
                     stack' = Append(stack, [cell |-> cur, todo |-> nbs])
                /\ pc' = "loop"
    /\ call' = NoCall
    /\ UNCHANGED <<mazeVars, alg, walkVars, frameVars, signalVars, result, memberVars, lookupVars, flipVars>>

\* for (const neighbor of neighbors) visit(current, neighbor.x, neighbor.y)
VisitNext ==
    /\ pc = "loop"
    /\ stack[Len(stack)].todo # << >>
    /\ LET top == stack[Len(stack)]
           nb == Head(top.todo)
       IN  /\ stack' = [stack EXCEPT ![Len(stack)].todo = Tail(top.todo)]
           /\ call' = [last |-> top.cell, x |-> nb[1], y |-> nb[2]]
    /\ pc' = "visit"
    /\ UNCHANGED <<mazeVars, edges, alg, dfsVisited, walkVars, frameVars, signalVars,
                   result, memberVars, lookupVars, flipVars>>

\* the loop of a visit is over: the call returns
VisitReturn ==
    /\ pc = "loop"
    /\ stack[Len(stack)].todo = << >>
    /\ stack' = SubSeq(stack, 1, Len(stack) - 1)
    /\ pc' = AfterVisit(stack')
    /\ UNCHANGED <<mazeVars, edges, alg, dfsVisited, call, walkVars, frameVars,
                   signalVars, result, memberVars, lookupVars, flipVars>>

DFSNext == DFSStart \/ VisitSeen \/ VisitNew \/ VisitNext \/ VisitReturn

----------------------------------------------------------------------------
(* timeoutWithCancel and the cancellation signal.                          *)

\* new Promise(...): setTimeout(resolve, time), signal.addEventListener("abort", ...)
NewDelay == [promise |-> "pending", timer |-> "armed"]

\* the delays whose listeners stay registered on the signal once d is replaced
Kept(old, d) == IF d = NoDelay THEN old ELSE old \cup {d}

\* the "abort" listener without reject(new Error("aborted"))
ListenerNoReject(d) ==
    [d EXCEPT !.timer = IF @ = "armed" THEN "cleared" ELSE @]

\* the "abort" listener without clearTimeout(timer)
ListenerNoClear(d) ==
    [d EXCEPT !.promise = IF @ = "pending" THEN "rejected" ELSE @]

\* the "abort" listener of a delay: clearTimeout(timer); reject(new Error("aborted"))
\* (a settled promise stays as it is)
Listener(d) ==
    [promise |-> IF d.promise = "pending" THEN "rejected" ELSE d.promise,
     timer |-> IF d.timer = "armed" THEN "cleared" ELSE d.timer]

\* the timer's callback: resolve
TimerFires(d) ==
    [promise |-> IF d.promise = "pending" THEN "resolved" ELSE d.promise,
     timer |-> "fired"]

Rejected(msg) == [state |-> "rejected", steps |-> -1, error |-> msg]
Fulfilled(n) == [state |-> "fulfilled", steps |-> n, error |-> ""]

AwaitsDelay == pc \in {"stepDelay", "finalDelay"}

\* some delay of the run has completed
SomeDelayCompleted == \E d \in Kept(oldDelays, delay) : d.promise = "resolved"

----------------------------------------------------------------------------
(* wilsonsAlgorithm.                                                       *)

\* stepsTaken += 1, and the count of frames: counted up to the bound, or left
\* out of the state (they decide nothing in the run)
Tick(n, counted) == IF counted THEN n + 1 ELSE n

\* renderMaze(maze, cell, p, ctx): the maze is only read
Render(cell, p, counted) ==
    /\ frames' = Tick(frames, counted)
    /\ lastFrame' = [cell |-> cell, path |-> p]

\* the seed of wilsonsAlgorithm without unvisited.delete(startCell)
WilsonStartNoDelete ==
    /\ pc = "constructed"
    /\ alg = "wilson"
    /\ \E r \in randomMember(AsArray(Flat(width, height))) :
         IF r.error # ""
         THEN /\ pc' = "thrown"
              /\ result' = Rejected(r.error)
              /\ UNCHANGED <<unvisited, visited, startCell>>
         ELSE /\ startCell' = r.value
              /\ visited' = {r.value}
              /\ unvisited' = Cells(width, height)
              /\ pc' = "outer"
              /\ result' = result
    /\ stepsTaken' = 0
    /\ UNCHANGED <<mazeVars, edges, alg, dfsVars, path, current, next, carveIdx,
                   unvisitedBefore, frameVars, signalVars, memberVars, lookupVars, flipVars>>

\* const unvisited = new Set(maze.cells.flat()), visited = new Set(), and the seed
WilsonStart ==
    /\ pc = "constructed"
    /\ alg = "wilson"
    /\ \E r \in randomMember(AsArray(Flat(width, height))) :
         IF r.error # ""
         THEN /\ pc' = "thrown"
              /\ result' = Rejected(r.error)
              /\ UNCHANGED <<unvisited, visited, startCell>>
         ELSE /\ startCell' = r.value
              /\ visited' = {r.value}
              /\ unvisited' = Cells(width, height) \ {r.value}
              /\ pc' = "outer"
              /\ result' = result
    /\ stepsTaken' = 0
    /\ UNCHANGED <<mazeVars, edges, alg, dfsVars, path, current, next, carveIdx,
                   unvisitedBefore, frameVars, signalVars, memberVars, lookupVars, flipVars>>

\* while (unvisited.size > 0): let path = [], current = randomMember(unvisited)
BeginWalk ==
    /\ pc = "outer"
    /\ Cardinality(unvisited) > 0
    /\ path' = << >>
    /\ unvisitedBefore' = Cardinality(unvisited)
    /\ \E r \in randomMember(AsSet(ArrayFrom(unvisited))) :
         IF r.error # ""
         THEN pc' = "thrown" /\ result' = Rejected(r.error) /\ current' = current
         ELSE pc' = "walk" /\ result' = result /\ current' = r.value
    /\ UNCHANGED <<mazeVars, edges, alg, dfsVars, unvisited, visited, startCell,
                   stepsTaken, next, carveIdx, frameVars, signalVars, memberVars, lookupVars, flipVars>>

\* the path after the loop erasure, path.push(current) done: p is the path,
\* nxt the chosen neighbor
EraseLoop(p, nxt) ==
    LET loopIdx == indexOf(p, nxt)
    IN  IF loopIdx # -1 THEN slice0(p, loopIdx + 1) ELSE Append(p, nxt)

\* one pass of while (!visited.has(current)), up to its await or, without a
\* frame, to its end
WalkStep(counted) ==
    /\ pc = "walk"
    /\ current \notin visited
    /\ counted => stepsTaken < MaxSteps
    /\ stepsTaken' = Tick(stepsTaken, counted)
    /\ \E r \in randomMember(AsArray(uncarvedEdges(edges, current))) :
         IF r.error # ""
         THEN /\ pc' = "thrown"
              /\ result' = Rejected(r.error)
              /\ path' = Append(path, current)
              /\ UNCHANGED <<current, next, frameVars, delay, oldDelays>>
         ELSE /\ next' = r.value
              /\ path' = EraseLoop(Append(path, current), r.value)
              /\ result' = result
              /\ IF Cardinality(visited) > 1
                 THEN /\ Render(r.value, path', counted)
                      /\ delay' = NewDelay
                      /\ oldDelays' = Kept(oldDelays, delay)
                      /\ current' = current
                      /\ pc' = "stepDelay"
                 ELSE /\ current' = r.value
                      /\ pc' = "walk"
                      /\ UNCHANGED <<frameVars, delay, oldDelays>>
    /\ UNCHANGED <<mazeVars, edges, alg, dfsVars, unvisited, visited, startCell,
                   carveIdx, unvisitedBefore, aborted, signalEarly, memberVars, lookupVars, flipVars>>

\* the walk has reached the maze: for (let i = 0; ...)
WalkEnd ==
    /\ pc = "walk"
    /\ current \in visited
    /\ carveIdx' = 0
    /\ pc' = "carve"
    /\ UNCHANGED <<mazeVars, edges, alg, dfsVars, unvisited, visited, startCell,
                   stepsTaken, path, current, next, unvisitedBefore, frameVars,
                   signalVars, result, memberVars, lookupVars, flipVars>>

\* one pass of the carving loop without unvisited.delete(cell)
CarveStepNoDelete ==
    /\ pc = "carve"
    /\ carveIdx < Len(path) - 1
    /\ LET cell == path[carveIdx + 1]
           nextCell == path[carveIdx + 2]
       IN  /\ edges' = carveEdge(edges, cell, nextCell)
           /\ visited' = visited \cup {cell}
    /\ carveIdx' = carveIdx + 1
    /\ UNCHANGED <<mazeVars, alg, pc, dfsVars, unvisited, startCell, stepsTaken, path,
                   current, next, unvisitedBefore, frameVars, signalVars, result,
                   memberVars, lookupVars, flipVars>>

\* one pass of the carving loop without visited.add(cell)
CarveStepNoAdd ==
    /\ pc = "carve"
    /\ carveIdx < Len(path) - 1
    /\ LET cell == path[carveIdx + 1]
           nextCell == path[carveIdx + 2]
       IN  /\ edges' = carveEdge(edges, cell, nextCell)
           /\ unvisited' = unvisited \ {cell}
    /\ carveIdx' = carveIdx + 1
    /\ UNCHANGED <<mazeVars, alg, pc, dfsVars, visited, startCell, stepsTaken, path,
                   current, next, unvisitedBefore, frameVars, signalVars, result,
                   memberVars, lookupVars, flipVars>>

\* one pass of the carving loop
CarveStep ==
    /\ pc = "carve"
    /\ carveIdx < Len(path) - 1
    /\ LET cell == path[carveIdx + 1]
           nextCell == path[carveIdx + 2]
       IN  /\ edges' = carveEdge(edges, cell, nextCell)
           /\ visited' = visited \cup {cell}
           /\ unvisited' = unvisited \ {cell}
    /\ carveIdx' = carveIdx + 1
    /\ UNCHANGED <<mazeVars, alg, pc, dfsVars, startCell, stepsTaken, path, current,
                   next, unvisitedBefore, frameVars, signalVars, result, memberVars, lookupVars, flipVars>>

\* the carving loop is over
CarveEnd ==
    /\ pc = "carve"
    /\ ~ (carveIdx < Len(path) - 1)
    /\ pc' = "outer"
    /\ UNCHANGED <<mazeVars, edges, alg, dfsVars, walkVars, frameVars, signalVars,
                   result, memberVars, lookupVars, flipVars>>

\* the final frame without await timeoutWithCancel(5000, cancelSignal)
FinalFrameNoAwait(counted) ==
    /\ pc = "outer"
    /\ ~ (Cardinality(unvisited) > 0)
    /\ Render(Null, << >>, counted)
    /\ pc' = "returned"
    /\ result' = Fulfilled(stepsTaken)
    /\ UNCHANGED <<mazeVars, edges, alg, dfsVars, walkVars, signalVars,
                   memberVars, lookupVars, flipVars>>

\* unvisited is empty: renderMaze(maze, null, [], ctx); await timeoutWithCancel(5000, ...)
FinalFrame(counted) ==
    /\ pc = "outer"
    /\ ~ (Cardinality(unvisited) > 0)
    /\ Render(Null, << >>, counted)
    /\ delay' = NewDelay
    /\ oldDelays' = Kept(oldDelays, delay)
    /\ pc' = "finalDelay"
    /\ UNCHANGED <<mazeVars, edges, alg, dfsVars, walkVars, aborted, signalEarly,
                   result, memberVars, lookupVars, flipVars>>

\* the timer of the awaited delay elapses and the run goes on after its await
TimerElapses ==
    /\ AwaitsDelay
    /\ delay.timer = "armed"
    /\ delay' = TimerFires(delay)
    /\ IF delay'.promise # "resolved"
       THEN UNCHANGED <<pc, current, result>>
       ELSE IF pc = "stepDelay"
            THEN pc' = "walk" /\ current' = next /\ result' = result
            ELSE pc' = "returned" /\ current' = current /\ result' = Fulfilled(stepsTaken)
    /\ UNCHANGED <<mazeVars, edges, alg, dfsVars, unvisited, visited, startCell,
                   stepsTaken, path, next, carveIdx, unvisitedBefore, frameVars,
                   aborted, signalEarly, oldDelays, memberVars, lookupVars, flipVars>>

\* the signal is triggered (once), while no code of the run is executing:
\* before wilsonsAlgorithm is called, during an awaited delay, or after the
\* run; every listener registered so far runs
Abort ==
    /\ alg = "wilson"
    /\ pc \in {"constructed", "stepDelay", "finalDelay", "returned"}
    /\ ~ aborted
    /\ aborted' = TRUE
    /\ signalEarly' = ~ SomeDelayCompleted
    /\ delay' = Listener(delay)
    /\ oldDelays' = {Listener(d) : d \in oldDelays}
    /\ IF AwaitsDelay /\ delay'.promise = "rejected"
       THEN pc' = "thrown" /\ result' = Rejected("aborted")
       ELSE UNCHANGED <<pc, result>>
    /\ UNCHANGED <<mazeVars, edges, alg, dfsVars, walkVars, frameVars, memberVars, lookupVars, flipVars>>

WilsonNext ==
    \/ WilsonStart \/ BeginWalk \/ WalkStep(TRUE) \/ WalkEnd \/ CarveStep \/ CarveEnd
    \/ FinalFrame(TRUE) \/ TimerElapses

----------------------------------------------------------------------------
(* The carvers: a maze is constructed, one carver runs on it, and the      *)
(* signal of wilsonsAlgorithm may be triggered.                            *)

Next == MazeConstructor \/ DFSNext \/ WilsonNext \/ Abort

Spec == Init /\ [][Next]_vars

----------------------------------------------------------------------------
(* wilsonsAlgorithm run to its end: no abort, the random choices fair.     *)
(* stepsTaken and the count of frames are left out of the state, so that   *)
(* a walk of any length is a behaviour of the specification.               *)

LiveInit == Init /\ alg = "wilson" /\ width * height <= MaxLiveCells

LiveNext ==
    \/ MazeConstructor \/ WilsonStart \/ BeginWalk \/ WalkStep(FALSE) \/ WalkEnd
    \/ CarveStep \/ CarveEnd \/ FinalFrame(FALSE) \/ TimerElapses

Dist(a, b) ==
    (IF a[1] > b[1] THEN a[1] - b[1] ELSE b[1] - a[1])
    + (IF a[2] > b[2] THEN a[2] - b[2] ELSE b[2] - a[2])

\* the number of grid steps from cell c to the nearest cell of visited
ToVisited(c) ==
    CHOOSE k \in 0..MaxCells :
        /\ \E v \in visited : Dist(c, v) = k
        /\ \A v \in visited : Dist(c, v) >= k

\* a walk step from k grid steps away from visited to a neighbor that is nearer
WalkNearer(k) ==
    /\ WalkStep(FALSE)
    /\ ToVisited(current) = k
    /\ ToVisited(next') < k

\* Every enabled step is eventually taken (the code runs on, timers elapse),
\* and a walk that is k steps away from visited again and again chooses a
\* nearer neighbor again and again (Math.random() is uniform, and one of the
\* at most 4 neighbors is nearer).
Fairness ==
    /\ WF_vars(LiveNext)
    /\ \A k \in 1..MaxLiveCells : SF_vars(WalkNearer(k))

LiveSpec == LiveInit /\ [][LiveNext]_vars /\ Fairness

----------------------------------------------------------------------------
(* randomMember alone, on every small Set and array.                       *)

Elems == SeqToSet(Flat(MaxLen, 1))

Arrays == UNION {[1..n -> Elems] : n \in 0..MaxLen}

Groups ==
    {AsArray(a) : a \in Arrays}
    \cup {AsSet(a) : a \in {b \in Arrays : \A i, j \in DOMAIN b : b[i] = b[j] => i = j}}

MemberInit ==
    /\ width = 0
    /\ height = 0
    /\ alg = "none"
    /\ pc = "member"
    /\ InitCarver
    /\ group \in Groups
    /\ picked = NoPick
    /\ InitNoLookup
    /\ InitNoFlipper

CallRandomMember ==
    /\ pc = "member"
    /\ picked' \in randomMember(group)
    /\ pc' = "memberDone"
    /\ UNCHANGED <<mazeVars, edges, alg, dfsVars, walkVars, frameVars, signalVars,
                   result, group, lookupVars, flipVars>>

MemberSpec == MemberInit /\ [][CallRandomMember]_vars

----------------------------------------------------------------------------
(* getCell alone, on a maze just constructed, at coordinates in and out    *)
(* of its bounds.                                                          *)

Coordinates == (-2)..(MaxCells + 1)

LookupInit ==
    /\ \E wh \in Sizes : width = wh[1] /\ height = wh[2]
    /\ alg = "none"
    /\ pc = "new"
    /\ InitCarver
    /\ group = NoGroup
    /\ picked = NoPick
    /\ lookup \in [x : Coordinates, y : Coordinates]
    /\ found = NoFound
    /\ InitNoFlipper

CallGetCell ==
    /\ pc = "constructed"
    /\ alg = "none"
    /\ found' = [called |-> TRUE, value |-> getCell(lookup.x, lookup.y)]
    /\ pc' = "lookupDone"
    /\ UNCHANGED <<mazeVars, edges, alg, dfsVars, walkVars, frameVars, signalVars,
                   result, memberVars, lookup, flipVars>>

LookupSpec == LookupInit /\ [][MazeConstructor \/ CallGetCell]_vars

----------------------------------------------------------------------------
(* SquareFlipper: the drag-select grid.  A string is the sequence of its   *)
(* characters.  Every handler runs on the state of the latest render.      *)

Digit(d) == <<"0", "1", "2", "3", "4", "5", "6", "7", "8", "9">>[d + 1]

\* `${n}` of an integer n >= 0
RECURSIVE ToString(_)
ToString(n) == IF n < 10 THEN <<Digit(n)>> ELSE ToString(n \div 10) \o <<Digit(n % 10)>>

\* Number(s) of a string of digits
RECURSIVE Number(_)
Number(str) ==
    IF str = << >> THEN 0
    ELSE 10 * Number(SubSeq(str, 1, Len(str) - 1))
         + (CHOOSE d \in 0..9 : Digit(d) = str[Len(str)])

\* str.split(",")
RECURSIVE Split(_)
Split(str) ==
    IF \A i \in DOMAIN str : str[i] # ","
    THEN <<str>>
    ELSE LET i == CHOOSE j \in DOMAIN str :
                      str[j] = "," /\ \A l \in 1..(j - 1) : str[l] # ","
         IN  <<SubSeq(str, 1, i - 1)>> \o Split(SubSeq(str, i + 1, Len(str)))

\* key = (r, c) => `${r},${c}`
key(r, c) == ToString(r) \o <<",">> \o ToString(c)

\* parseKey: const [r, c] = k.split(",").map(Number)
parseKey(k) == [r |-> Number(Split(k)[1]), c |-> Number(Split(k)[2])]

Abs(n) == IF n < 0 THEN -n ELSE n

\* isOrthAdjacentToAnySelected accepting a diagonal neighbor too
isAdjacentOrDiagonal(r, c, set) ==
    \/ Cardinality(set) = 0
    \/ \E k \in set :
         /\ Abs(parseKey(k).r - r) <= 1
         /\ Abs(parseKey(k).c - c) <= 1
         /\ Abs(parseKey(k).r - r) + Abs(parseKey(k).c - c) >= 1

\* isOrthAdjacentToAnySelected
isOrthAdjacentToAnySelected(r, c, set) ==
    \/ Cardinality(set) = 0
    \/ \E k \in set : Abs(parseKey(k).r - r) + Abs(parseKey(k).c - c) = 1

FlipInit ==
    /\ width = 0
    /\ height = 0
    /\ alg = "none"
    /\ pc = "flipper"
    /\ InitCarver
    /\ group = NoGroup
    /\ picked = NoPick
    /\ InitNoLookup
    /\ rows \in 1..MaxSquares
    /\ cols \in 1..MaxSquares
    /\ rows * cols <= MaxSquares
    /\ isSelecting = FALSE
    /\ selected = {}
    /\ event = "none"

notFlipVars ==
    <<mazeVars, edges, alg, pc, dfsVars, walkVars, frameVars, signalVars, result,
      memberVars, lookupVars, rows, cols>>

\* onPointerDown of the cell (r, c): handlePointerDown
PointerDown(r, c) ==
    /\ pc = "flipper"
    /\ selected' = {key(r, c)}
    /\ isSelecting' = TRUE
    /\ event' = "down"
    /\ UNCHANGED notFlipVars

\* onPointerEnter of the cell (r, c): handlePointerEnter
PointerEnter(r, c) ==
    /\ pc = "flipper"
    /\ IF ~ isSelecting
       THEN selected' = selected
       ELSE selected' =
              IF key(r, c) \notin selected /\ isOrthAdjacentToAnySelected(r, c, selected)
              THEN selected \cup {key(r, c)}
              ELSE selected
    /\ isSelecting' = isSelecting
    /\ event' = "enter"
    /\ UNCHANGED notFlipVars

\* onPointerUp: finishAndLog
PointerUp ==
    /\ pc = "flipper"
    /\ isSelecting' = FALSE
    /\ selected' = selected
    /\ event' = "up"
    /\ UNCHANGED notFlipVars

\* cancelSelection without setSelected(new Set())
cancelSelectionNoClear(ev) ==
    /\ pc = "flipper"
    /\ isSelecting' = FALSE
    /\ selected' = selected
    /\ event' = ev
    /\ UNCHANGED notFlipVars

\* cancelSelection, called for the pointer event ev
cancelSelection(ev) ==
    /\ pc = "flipper"
    /\ IF ~ isSelecting
       THEN UNCHANGED <<isSelecting, selected>>
       ELSE isSelecting' = FALSE /\ selected' = {}
    /\ event' = ev
    /\ UNCHANGED notFlipVars

\* onPointerCancel
PointerCancel == cancelSelection("cancel")

\* onPointerLeave of the container
PointerLeave == cancelSelection("leave")

FlipNext ==
    \/ \E r \in 0..(rows - 1) : \E c \in 0..(cols - 1) : PointerDown(r, c)
    \/ \E r \in 0..(rows - 1) : \E c \in 0..(cols - 1) : PointerEnter(r, c)
    \/ PointerUp
    \/ PointerCancel
    \/ PointerLeave

FlipSpec == FlipInit /\ [][FlipNext]_vars

----------------------------------------------------------------------------
(* What the properties speak of.                                           *)

\* the cells of the constructed maze
MazeCells == DOMAIN edges

\* the in-bounds cells at (x-1,y), (x+1,y), (x,y-1), (x,y+1)
Adjacent(c) == {n \in Cells(width, height) : Dist(c, n) = 1}

NoDuplicates(s) == \A i, j \in DOMAIN s : s[i] = s[j] => i = j

\* the entries of all edges collections together
RECURSIVE EntriesOf(_)
EntriesOf(cs) ==
    IF cs = << >> THEN 0 ELSE Len(edges[Head(cs)]) + EntriesOf(Tail(cs))

\* carved undirected edges in total: carveEdge makes two entries for each
CarvedEdges == EntriesOf(Flat(width, height)) \div 2

\* the cells reached from the cells of S along carved edges
RECURSIVE ReachedFrom(_)
ReachedFrom(S) ==
    LET T == S \cup UNION {SeqToSet(edges[c]) : c \in S}
    IN  IF T = S THEN S ELSE ReachedFrom(T)

Connected == \A c \in MazeCells : ReachedFrom({c}) = MazeCells

\* no carved edge from a cell to itself, none carved twice, and as many
\* carved edges as a forest with these connected components has
Acyclic ==
    /\ \A c \in MazeCells : c \notin SeqToSet(edges[c]) /\ NoDuplicates(edges[c])
    /\ Cardinality(UNION {{{a, b} : b \in SeqToSet(edges[a])} : a \in MazeCells})
         = Cardinality(MazeCells) - Cardinality({ReachedFrom({c}) : c \in MazeCells})

WilsonCompleted == alg = "wilson" /\ pc = "returned"
DFSCompleted == alg = "dfs" /\ pc = "dfsDone"

----------------------------------------------------------------------------
(* Properties.                                                             *)

\* C1: when wilsonsAlgorithm completes without abort, the carved-edge graph
\* is a spanning tree of the grid: it is connected, it has exactly
\* width*height - 1 carved undirected edges in total, and no cell has more
\* entries in its edges collection than it has neighbors.
C1_WilsonSpanningTree ==
    WilsonCompleted =>
        /\ Connected
        /\ CarvedEdges = width * height - 1
        /\ \A c \in MazeCells : Len(edges[c]) <= Len(neighbors[c])

\* C2: when solveMazeWithRandomDPS returns, the carved-edge graph is connected
\* and acyclic with exactly width*height - 1 carved undirected edges in total.
C2_DFSSpanningTree ==
    DFSCompleted =>
        /\ Connected
        /\ Acyclic
        /\ CarvedEdges = width * height - 1

\* C3: during and after a run of either carver, every member of c.edges is a
\* grid neighbor of c (so no cell is carved to itself), and edges are
\* symmetric: b is in a.edges iff a is in b.edges.
C3_EdgesAreNeighbors ==
    \A c \in MazeCells :
        /\ SeqToSet(edges[c]) \subseteq SeqToSet(neighbors[c])
        /\ \A b \in MazeCells :
             (b \in SeqToSet(edges[c])) <=> (c \in SeqToSet(edges[b]))

\* C4: if the signal fires while a delay of wilsonsAlgorithm is pending, the
\* run fails with the aborted error and returns no step count, and from the
\* abort on no edge is carved, no cell moves between unvisited and visited and
\* the renderer is not invoked: the maze stays as it was when the delay started.
C4_AbortStopsRun ==
    [][/\ (AwaitsDelay /\ delay.promise = "pending" /\ ~ aborted /\ aborted') =>
            /\ pc' = "thrown"
            /\ result' = Rejected("aborted")
            /\ UNCHANGED <<edges, visited, unvisited, frames>>
       /\ (pc = "thrown") =>
            UNCHANGED <<pc, result, edges, visited, unvisited, frames>>]_vars

\* an aborted run of a maze that is carved in part
C4_Witness ==
    /\ pc = "thrown"
    /\ result = Rejected("aborted")
    /\ CarvedEdges > 0
    /\ unvisited # {}

\* C5: with the signal triggered before any delay of the run has completed
\* (also before wilsonsAlgorithm is started), wilsonsAlgorithm fails with the
\* aborted error and returns no step count.
C5_EarlySignalAborts ==
    signalEarly => pc # "returned" /\ result.state # "fulfilled"

\* C6: a walk step whose chosen cell next is already in the path leaves a path
\* without duplicates that ends with next; the path handed to the renderer and
\* the path handed to the carving loop hold no cell twice.
C6_LoopErased ==
    [][/\ (stepsTaken' # stepsTaken /\ next' \in SeqToSet(path)) =>
            (NoDuplicates(path') /\ path'[Len(path')] = next')
       /\ (frames' # frames) => NoDuplicates(lastFrame'.path)
       /\ (pc # "carve" /\ pc' = "carve") => NoDuplicates(path')]_vars

\* C7: a 1x1 maze run through either carver ends with 0 carved edges (the
\* cell's edges collection is empty), and wilsonsAlgorithm returns a step
\* count of 0 on it.
C7_SingleCell ==
    (width = 1 /\ height = 1 /\ (DFSCompleted \/ WilsonCompleted)) =>
        /\ edges[<<0, 0>>] = << >>
        /\ WilsonCompleted => (result.steps = 0 /\ stepsTaken = 0)

\* C8: with no abort and fair random choices every run of wilsonsAlgorithm
\* returns, and every completed pass of the main loop (a walk and its carving)
\* leaves unvisited smaller than it found it.
C8_WilsonTerminates ==
    /\ <>(pc = "returned")
    /\ [][(pc = "carve" /\ pc' = "outer") =>
            Cardinality(unvisited') < unvisitedBefore]_vars

\* a run on a 2x2 maze has returned
C8_Witness == pc = "returned" /\ width = 2 /\ height = 2 /\ unvisited = {}

\* C9: right after the Maze constructor there is one cell per (x, y) of
\* [0,width) x [0,height), every cell's neighbors are exactly its in-bounds
\* cells at (x-1,y), (x+1,y), (x,y-1), (x,y+1), none twice, the neighbor
\* relation is symmetric, and every edges collection is empty.
C9_MazeConstructed ==
    pc = "constructed" =>
        /\ DOMAIN neighbors = {<<x, y>> : x \in 0..(width - 1), y \in 0..(height - 1)}
        /\ DOMAIN edges = DOMAIN neighbors
        /\ \A c \in DOMAIN neighbors :
             /\ SeqToSet(neighbors[c]) = Adjacent(c)
             /\ NoDuplicates(neighbors[c])
             /\ \A n \in SeqToSet(neighbors[c]) : c \in SeqToSet(neighbors[n])
             /\ edges[c] = << >>

\* a constructed maze with cells of 2, 3 and 4 neighbors
C9_Witness == pc = "constructed" /\ width = 3 /\ height = 2

\* C10: randomMember of an empty Set or array fails with the empty-collection
\* error and returns nothing; of a non-empty one it does not fail and returns
\* a member, so the single element of a singleton.
C10_RandomMember ==
    pc = "memberDone" =>
        IF Len(group.items) = 0
        THEN picked = Thrown("empty group")
        ELSE /\ picked.error = ""
             /\ picked.value \in SeqToSet(group.items)
             /\ Len(group.items) = 1 => picked.value = group.items[1]

\* randomMember has failed on an empty array
C10_Witness ==
    pc = "memberDone" /\ group = AsArray(<< >>) /\ picked.error = "empty group"

\* C11: getCell(x, y) returns null, and leaves the maze as it is, for every
\* coordinate outside [0,width) x [0,height), and for every coordinate inside
\* returns the cell whose own coordinates are (x, y).
C11_GetCell ==
    pc = "lookupDone" =>
        /\ found.called
        /\ IF lookup.x \in 0..(width - 1) /\ lookup.y \in 0..(height - 1)
           THEN found.value # Null /\ found.value[1] = lookup.x /\ found.value[2] = lookup.y
           ELSE found.value = Null
        /\ neighbors = SetUpNeighbors(width, height)
        /\ edges = NoEdges(width, height)

\* getCell has returned null for x = width on a maze of more than one row and column
C11_Witness ==
    /\ pc = "lookupDone"
    /\ width > 1 /\ height > 1
    /\ lookup.x = width /\ lookup.y = 0
    /\ found.value = Null

\* a is b with some entries left out, the others in b's order
RECURSIVE IsSubsequence(_, _)
IsSubsequence(a, b) ==
    IF a = << >> THEN TRUE
    ELSE IF b = << >> THEN FALSE
    ELSE IF Head(a) = Head(b) THEN IsSubsequence(Tail(a), Tail(b))
    ELSE IsSubsequence(a, Tail(b))

\* C12: during and after a run of either carver, for every cell c,
\* uncarvedEdges(c) is a subset of c.neighbors in the neighbors' order, and its
\* size is the number of neighbors of c minus the number of entries of c.edges.
C12_UncarvedEdges ==
    \A c \in MazeCells :
        /\ SeqToSet(uncarvedEdges(edges, c)) \subseteq SeqToSet(neighbors[c])
        /\ IsSubsequence(uncarvedEdges(edges, c), neighbors[c])
        /\ Len(uncarvedEdges(edges, c)) = Len(neighbors[c]) - Len(edges[c])

\* the squares of S reached from the squares of T by steps to a square of S
\* at Manhattan distance 1
RECURSIVE SelectedFrom(_, _)
SelectedFrom(T, S) ==
    LET U == T \cup {k \in S : \E t \in T : Abs(k.r - t.r) + Abs(k.c - t.c) = 1}
    IN  IF U = T THEN T ELSE SelectedFrom(U, S)

\* the squares (r, c) whose keys are in the Set sel are connected by such steps
OrthogonallyConnected(sel) ==
    LET S == {parseKey(k) : k \in sel}
    IN  \A k \in S : SelectedFrom({k}, S) = S

\* C13: after any sequence of pointer events the selected set is orthogonally
\* connected; pointer-enter adds a cell only while a session is active and
\* only at Manhattan distance 1 from a selected cell; pointer-down makes the
\* selection exactly the pressed cell.
C13_SelectionConnected ==
    [][/\ OrthogonallyConnected(selected')
       /\ \A r \in 0..(rows - 1) : \A c \in 0..(cols - 1) :
            /\ PointerEnter(r, c) =>
                 \/ selected' = selected
                 \/ /\ isSelecting
                    /\ selected' = selected \cup {key(r, c)}
                    /\ \E k \in selected :
                         Abs(parseKey(k).r - r) + Abs(parseKey(k).c - c) = 1
            /\ PointerDown(r, c) => (selected' = {key(r, c)} /\ isSelecting')]_vars

\* a session has selected 4 cells by pointer-enter
C13_Witness == isSelecting /\ event = "enter" /\ Cardinality(selected) = 4

\* C14 as stated: after a pointer leave or a pointer cancel the session is not
\* active and the selected set is empty.
C14_LeaveAlwaysClears ==
    event \in {"leave", "cancel"} => (~ isSelecting /\ selected = {})

\* C14 amended: a pointer leave or cancel during an active session ends the
\* session and empties the selected set, and outside a session changes
\* neither; pointer up ends the session and leaves the selected set as it is.
C14_LeaveClearsSession ==
    [][/\ (PointerLeave \/ PointerCancel) =>
            /\ ~ isSelecting'
            /\ isSelecting => selected' = {}
            /\ ~ isSelecting => selected' = selected
       /\ PointerUp => (~ isSelecting' /\ selected' = selected)]_vars

\* the pointer has left the grid after a session that pointer up had ended
C14_Witness == event = "leave" /\ ~ isSelecting /\ Cardinality(selected) >= 2

\* C15: every walk step of wilsonsAlgorithm (every increment of stepsTaken),
\* in the first walk too, is followed by one renderMaze invocation with next
\* and the path and by one awaited delay before the run goes on; so a
\* completed run has made as many per-step frames as the step count it returns.
C15_FramePerStep ==
    [][/\ (stepsTaken' = stepsTaken + 1) =>
            /\ frames' = frames + 1
            /\ lastFrame' = [cell |-> next', path |-> path']
            /\ pc' = "stepDelay"
            /\ delay' = NewDelay
       /\ (pc' = "returned") => (frames' - 1 = result'.steps)]_vars

\* C16: no call of randomMember made by solveMazeWithRandomDPS or by
\* wilsonsAlgorithm receives an empty collection: neither carver fails with
\* the empty-collection error, and whenever the walk is about to choose the
\* next cell the current cell has an uncarved edge.
C16_NeverEmptyGroup ==
    /\ pc # "dfsThrown"
    /\ result.error # "empty group"
    /\ pc = "constructed" => Flat(width, height) # << >>
    /\ (pc = "outer" /\ Cardinality(unvisited) > 0) => ArrayFrom(unvisited) # << >>
    /\ (pc = "walk" /\ current \notin visited) => uncarvedEdges(edges, current) # << >>

\* a walk under way is about to choose its next cell, other walks being carved
C16_Witness ==
    /\ pc = "walk"
    /\ current \notin visited
    /\ Len(path) >= 2
    /\ Cardinality(visited) > 1

\* no cell outside visited has an edge, and every edge joins cells of visited
CarvedAmongVisited ==
    /\ \A c \in unvisited : edges[c] = << >>
    /\ \A c \in MazeCells :
         edges[c] # << >> => c \in visited /\ SeqToSet(edges[c]) \subseteq visited

\* C17: at every awaited delay of wilsonsAlgorithm, at the start of every walk
\* and in a run that has failed, every unvisited cell has no edge and every
\* carved edge joins two visited cells; and the current cell of a walk
\* chooses among all its grid neighbors.
C17_NoPartialWalk ==
    /\ (/\ alg = "wilson"
        /\ \/ pc \in {"stepDelay", "finalDelay", "thrown"}
           \/ pc = "walk" /\ path = << >>) => CarvedAmongVisited
    /\ (pc = "walk" /\ current \notin visited) =>
         uncarvedEdges(edges, current) = neighbors[current]

\* a run is aborted during a walk, earlier walks being carved
C17_Witness ==
    /\ pc = "thrown"
    /\ result.error = "aborted"
    /\ lastFrame.cell # Null
    /\ Len(path) >= 2
    /\ CarvedEdges > 0

\* wilsonsAlgorithm has been called: its sets visited and unvisited exist
WilsonRunning == alg = "wilson" /\ pc \notin {"new", "constructed"}

\* C18: throughout wilsonsAlgorithm visited and unvisited are disjoint and
\* their union is the set of all cells of the maze; no step takes a cell out
\* of visited or puts one into unvisited; and when the run returns, unvisited
\* is empty and visited holds every cell.
C18_Partition ==
    [][/\ WilsonRunning' =>
            /\ visited' \cap unvisited' = {}
            /\ visited' \cup unvisited' = MazeCells'
       /\ WilsonRunning =>
            /\ visited \subseteq visited'
            /\ unvisited' \subseteq unvisited
       /\ WilsonCompleted' =>
            /\ unvisited' = {}
            /\ visited' = MazeCells']_vars

\* a run on a maze of several cells has returned
C18_Witness ==
    /\ WilsonCompleted
    /\ Cardinality(visited) >= 4
    /\ unvisited = {}

\* C19: the final frame (no current cell, empty path) is rendered only when
\* unvisited is empty and the walks are carved, and is followed by one
\* awaited delay; the step count is returned only once that delay has
\* elapsed; after the final frame nothing is carved and no frame is rendered.
C19_CompletionOrder ==
    [][/\ (frames' # frames /\ lastFrame' = NoFrame) =>
            /\ pc = "outer"
            /\ unvisited = {}
            /\ CarvedAmongVisited
            /\ pc' = "finalDelay"
            /\ delay' = NewDelay
            /\ result'.state = "pending"
       /\ (pc' = "finalDelay" /\ pc # "finalDelay") =>
            frames' # frames /\ lastFrame' = NoFrame
       /\ pc \in {"finalDelay", "returned"} =>
            /\ UNCHANGED <<edges, frames, lastFrame, visited, unvisited, stepsTaken>>
            /\ pc' \in {"finalDelay", "returned", "thrown"}
            /\ delay' \in {delay, TimerFires(delay), Listener(delay)}
       /\ (result'.state = "fulfilled" /\ result.state # "fulfilled") =>
            /\ pc = "finalDelay"
            /\ delay = NewDelay
            /\ delay' = [promise |-> "resolved", timer |-> "fired"]
            /\ result'.steps = stepsTaken
            /\ pc' = "returned"]_vars

\* a run of several walks has returned its step count after the final delay
C19_Witness ==
    /\ WilsonCompleted
    /\ result.state = "fulfilled"
    /\ lastFrame = NoFrame
    /\ frames > 1
    /\ delay = [promise |-> "resolved", timer |-> "fired"]
    /\ oldDelays # {}

\* the promise of a delay is settled
Settled(d) == d.promise \in {"resolved", "rejected"}

\* a delay is pending with its timer armed, completed by its timer, or failed
\* with its timer cleared
SettledOnce(d) ==
    \/ d = [promise |-> "pending", timer |-> "armed"]
    \/ d = [promise |-> "resolved", timer |-> "fired"]
    \/ d = [promise |-> "rejected", timer |-> "cleared"]

\* C20: each delay of timeoutWithCancel settles once, completed by its timer
\* or failed by the signal, whichever comes first: a settled delay never
\* changes again and has no armed timer; and when the signal is triggered
\* the delays that have completed stay completed, only the pending delay
\* fails.
C20_DelaySettlesOnce ==
    [][/\ \A d \in Kept(oldDelays', delay') : SettledOnce(d)
       /\ \A d \in oldDelays' : d.promise = "resolved"
       /\ oldDelays \subseteq oldDelays'
       /\ Settled(delay) => delay' = delay \/ (delay' = NewDelay /\ delay \in oldDelays')
       /\ (delay = NewDelay /\ delay' # delay) =>
            \/ /\ delay' = [promise |-> "resolved", timer |-> "fired"]
               /\ aborted' = aborted
            \/ /\ delay' = [promise |-> "rejected", timer |-> "cleared"]
               /\ ~ aborted /\ aborted'
               /\ result' = Rejected("aborted")
       /\ (~ aborted /\ aborted') =>
            /\ oldDelays' = oldDelays
            /\ delay' = IF delay = NewDelay
                        THEN [promise |-> "rejected", timer |-> "cleared"]
                        ELSE delay]_vars

\* the signal has failed the pending delay after an earlier delay completed
C20_Witness ==
    /\ aborted
    /\ delay = [promise |-> "rejected", timer |-> "cleared"]
    /\ [promise |-> "resolved", timer |-> "fired"] \in oldDelays

====
